---- MODULE Spec2Model ----
(***************************************************************************)
(* Export Lifecycle Controller: the Step Functions graph wired by          *)
(* DynamoDbContinuousIncrementalExportsStack.deployStepFunction, together  *)
(* with the parameter store, the export jobs and the scheduler it talks    *)
(* to.  One cycle is one execution of the state machine.                   *)
(***************************************************************************)
EXTENDS Integers, Sequences, FiniteSets, TLC

\* ------------------------------------------------------------------ bounds
MaxTime == 2
WindowSize == 2
\* Largest export window, in minutes, a configuration is tried with.
MaxWindowMinutes == 1442

\* Execution slots of the state machine: the scheduler's execution and one more
\* that may overlap it.
Cycles == {"first", "second"}

\* --------------------------------------------------------------- constants
\* lib/constants/incrementalExportDefaults (values of the SDK retry policy)
SDK_EXCEPTION_RETRY_ATTEMPTS == 2
SDK_EXCEPTION_INTERVAL_DURATION_SECONDS == 5
SDK_EXCEPTION_BACKOFF_RATE == 2
\* addRetry on executeIncrementalExport
INVALID_EXPORT_TIME_MAX_ATTEMPTS == 2
INVALID_EXPORT_TIME_INTERVAL_SECONDS == 60
INVALID_EXPORT_TIME_BACKOFF_RATE == 1

\* sanityChecks: the accepted range of incrementalExportWindowSizeInMinutes
MIN_WINDOW_SIZE_IN_MINUTES == 15
MAX_WINDOW_SIZE_IN_MINUTES == 24 * 60

ABSENT == "ABSENT"
NULL_STRING == "NULL"
UNSET == "UNSET"
NoTime == 0 - 1

ParameterNames ==
  {"WorkflowAction", "WorkflowState", "WorkflowInitiated",
   "LastIncrementalExportTime", "FullExportTime"}

TimeParameters == {"LastIncrementalExportTime", "FullExportTime"}

\* A parameter that does not exist: ABSENT, or NoTime for a timestamp.
NoParameters == [k \in ParameterNames |-> IF k \in TimeParameters THEN NoTime ELSE ABSENT]

TerminalNodes ==
  {"workflowPaused", "pitrDisabledFail", "fullExportStillRunning", "pitrGapFound",
   "incrementalExportNotNeeded", "incrementalExportStartTimeOutsidePitrWindowFail",
   "incrementalExportFailed", "incrementalExportSucceeded",
   "fullExportFailed", "fullExportSucceeded", "taskFailedNode", "executionAborted"}

VARIABLES params, now, pc, ctx, retries, hist, job, stack

vars == <<params, now, pc, ctx, retries, hist, job, stack>>

\* ------------------------------------------------------ retriers / catchers
RECURSIVE Pow(_, _)
Pow(b, n) == IF n = 0 THEN 1 ELSE b * Pow(b, n - 1)

\* A retrier that takes every error of the parameter store.
ssmSdkRetryHandler_RetryAll ==
  [errors |-> {"States.ALL"},
   interval |-> SDK_EXCEPTION_INTERVAL_DURATION_SECONDS,
   maxAttempts |-> SDK_EXCEPTION_RETRY_ATTEMPTS,
   backoffRate |-> SDK_EXCEPTION_BACKOFF_RATE]

ssmSdkRetryHandler ==
  [errors |-> {"Ssm.SdkClientException"},
   interval |-> SDK_EXCEPTION_INTERVAL_DURATION_SECONDS,
   maxAttempts |-> SDK_EXCEPTION_RETRY_ATTEMPTS,
   backoffRate |-> SDK_EXCEPTION_BACKOFF_RATE]

dynamoDbSdkRetryHandler ==
  [errors |-> {"DynamoDb.SdkClientException"},
   interval |-> SDK_EXCEPTION_INTERVAL_DURATION_SECONDS,
   maxAttempts |-> SDK_EXCEPTION_RETRY_ATTEMPTS,
   backoffRate |-> SDK_EXCEPTION_BACKOFF_RATE]

\* One attempt more than the code asks for.
invalidExportTimeRetry_ThreeAttempts ==
  [errors |-> {"DynamoDb.InvalidExportTimeException"},
   interval |-> INVALID_EXPORT_TIME_INTERVAL_SECONDS,
   maxAttempts |-> INVALID_EXPORT_TIME_MAX_ATTEMPTS + 1,
   backoffRate |-> INVALID_EXPORT_TIME_BACKOFF_RATE]

invalidExportTimeRetry ==
  [errors |-> {"DynamoDb.InvalidExportTimeException"},
   interval |-> INVALID_EXPORT_TIME_INTERVAL_SECONDS,
   maxAttempts |-> INVALID_EXPORT_TIME_MAX_ATTEMPTS,
   backoffRate |-> INVALID_EXPORT_TIME_BACKOFF_RATE]

CatchTo(errs, node) == [errors |-> errs, next |-> node]
catchAllToNotifyOnTaskFailed == CatchTo({"States.ALL"}, "notifyOnTaskFailed")

Matches(errs, e) == e \in errs \/ "States.ALL" \in errs

IsCatchAll(k) == "States.ALL" \in k.errors
IsSpecific(k) == ~IsCatchAll(k)

\* The rendered Catch array: the catchers in the order they were added, with
\* the States.ALL catchers moved last.
RenderCatch(K) == SelectSeq(K, IsSpecific) \o SelectSeq(K, IsCatchAll)

FirstMatch(S, e) ==
  LET idx == {i \in 1..Len(S) : Matches(S[i].errors, e)}
  IN IF idx = {} THEN 0 ELSE CHOOSE i \in idx : \A j \in idx : i <= j

RetryDelay(r, attempt) == r.interval * Pow(r.backoffRate, attempt)

NoRetries == [count |-> <<0, 0>>, delay |-> 0]

\* --------------------------------------------------------------- errors
SsmErrors == {"Ssm.SdkClientException", "Ssm.AccessDeniedException"}
SsmWriteErrors == SsmErrors \cup {"Ssm.ParameterNotFoundException"}
DynamoDbErrors == {"DynamoDb.SdkClientException", "DynamoDb.AccessDeniedException"}
StartIncrementalErrors == DynamoDbErrors \cup {"DynamoDb.InvalidExportTimeException"}
SnsErrors == {"Sns.AuthorizationErrorException"}
LambdaErrors == {"Lambda.Unknown"}

\* ------------------------------------------------------------ cycle state
NoContext ==
  [p |-> NoParameters,
   reset |-> FALSE,
   pitr |-> UNSET,
   earliest |-> NoTime,
   watermark |-> NoTime,
   exportFromTime |-> NoTime,
   exportToTime |-> NoTime,
   checkTime |-> NoTime,
   exportTime |-> NoTime,
   status |-> UNSET,
   flag |-> UNSET]

NoHistory ==
  [route |-> "none",
   calls |-> {},
   writes |-> {},
   notes |-> {},
   notifyOnTaskFailedRuns |-> 0,
   lastErr |-> "none",
   raised |-> FALSE,
   escalated |-> {}]

NoJob == [kind |-> "none", status |-> "NONE"]

\* ------------------------------------------------------------ provisioning
\* What init defines once sanityChecks has passed.
StackResources ==
  {"source-data-export-bucket", "source-ddb-source-table", "notification-module",
   "time-manipulator-function", "state-machine", "scheduler-role",
   "step-function-trigger-schedule"}

NoStack ==
  [phase |-> "none", window |-> NoTime, checks |-> "none", init |-> "none",
   resources |-> {}, process |-> "running"]

\* A stack whose construction went through, synthesized and deployed.
DeployedStack ==
  [phase |-> "constructed", window |-> MIN_WINDOW_SIZE_IN_MINUTES, checks |-> "fulfilled",
   init |-> "fulfilled", resources |-> StackResources, process |-> "synthesized"]

\* The bounds taken the other way round: 15 and 1440 themselves rejected.
sanityChecks_Exclusive(w) ==
  IF w <= MIN_WINDOW_SIZE_IN_MINUTES \/ w >= MAX_WINDOW_SIZE_IN_MINUTES
  THEN "rejected"
  ELSE "fulfilled"

\* sanityChecks is async: its throw is the rejection of the promise it returns.
sanityChecks(w) ==
  IF w < MIN_WINDOW_SIZE_IN_MINUTES \/ w > MAX_WINDOW_SIZE_IN_MINUTES
  THEN "rejected"
  ELSE "fulfilled"

\* new DynamoDbContinuousIncrementalExportsStack(...): the constructor calls
\* init without awaiting it; init runs up to its first await, the one on
\* sanityChecks, and the constructor returns.
Constructor(w) ==
  /\ stack.phase = "none"
  /\ stack' = [stack EXCEPT !.phase = "constructed",
                            !.window = w,
                            !.checks = sanityChecks(w),
                            !.init = "awaiting"]
  /\ UNCHANGED <<params, now, pc, ctx, retries, hist, job>>

\* init resumes after the await: a rejected sanityChecks rejects init and
\* nothing after the await runs; otherwise the resources are defined.
InitResumes ==
  /\ stack.init = "awaiting"
  /\ IF stack.checks = "rejected"
     THEN stack' = [stack EXCEPT !.init = "rejected"]
     ELSE stack' = [stack EXCEPT !.init = "fulfilled", !.resources = StackResources]
  /\ UNCHANGED <<params, now, pc, ctx, retries, hist, job>>

\* The end of the app's process: the rejection of init, which nothing
\* handles, ends it with the error; otherwise the app is synthesized.
ProcessEnds ==
  /\ stack.process = "running"
  /\ stack.init \in {"fulfilled", "rejected"}
  /\ stack' = [stack EXCEPT !.process = IF stack.init = "rejected" THEN "failed" ELSE "synthesized"]
  /\ UNCHANGED <<params, now, pc, ctx, retries, hist, job>>

Init ==
  /\ params = NoParameters
  /\ now = 0
  /\ pc = [c \in Cycles |-> "idle"]
  /\ ctx = [c \in Cycles |-> NoContext]
  /\ retries = [c \in Cycles |-> NoRetries]
  /\ hist = [c \in Cycles |-> NoHistory]
  /\ job = [c \in Cycles |-> NoJob]
  /\ stack = DeployedStack

\* ----------------------------------------------------- step building blocks
\* What an execution has done so far: the service calls it issued, the tasks
\* that wrote the parameter store, the notifications it published, and the
\* errors its tasks raised.
Log(c, node, calls, writes, notes, e, esc) ==
  hist' = [hist EXCEPT ![c] =
            [hist[c] EXCEPT !.calls = hist[c].calls \cup calls,
                            !.writes = hist[c].writes \cup writes,
                            !.notes = hist[c].notes \cup notes,
                            !.notifyOnTaskFailedRuns =
                               IF node = "notifyOnTaskFailed" /\ e = "none"
                               THEN hist[c].notifyOnTaskFailedRuns + 1
                               ELSE hist[c].notifyOnTaskFailedRuns,
                            !.lastErr = e,
                            !.raised = hist[c].raised \/ e # "none",
                            !.escalated = hist[c].escalated \cup esc]]

Goto(c, node) ==
  /\ pc' = [pc EXCEPT ![c] = node]
  /\ retries' = [retries EXCEPT ![c] = NoRetries]
  /\ UNCHANGED stack

CanRetry(c, e, R) ==
  LET r == FirstMatch(R, e)
  IN r # 0 /\ retries[c].count[r] < R[r].maxAttempts

\* A task that raises e: retried by the first matching retrier while it has
\* attempts left, otherwise handed to the first matching catcher, otherwise
\* the execution fails.
HandleError(c, e, R, K) ==
  LET r == FirstMatch(R, e)
      RK == RenderCatch(K)
      k == FirstMatch(RK, e)
  IN IF CanRetry(c, e, R)
     THEN /\ pc' = pc
          /\ retries' = [retries EXCEPT ![c] =
                           [count |-> [retries[c].count EXCEPT ![r] = @ + 1],
                            delay |-> RetryDelay(R[r], retries[c].count[r])]]
          /\ UNCHANGED stack
     ELSE IF k # 0
          THEN Goto(c, RK[k].next)
          ELSE Goto(c, "executionAborted")

\* The error is neither retried nor taken by a catcher naming it.
Escalates(c, e, R, K) ==
  LET RK == RenderCatch(K)
      k == FirstMatch(RK, e)
  IN ~CanRetry(c, e, R) /\ (k = 0 \/ IsCatchAll(RK[k]))

Raise(c, node, call, e, R, K) ==
  /\ HandleError(c, e, R, K)
  /\ Log(c, node, call, {}, {}, e, IF Escalates(c, e, R, K) THEN {node} ELSE {})
  /\ UNCHANGED <<params, now, ctx, job>>

\* A Pass, Wait, Choice or terminal transition: no call, no error.
Move(c, node) ==
  /\ Goto(c, node)
  /\ Log(c, pc[c], {}, {}, {}, "none", {})

SetRoute(c, node, r) ==
  /\ Goto(c, node)
  /\ hist' = [hist EXCEPT ![c] = [hist[c] EXCEPT !.route = r, !.lastErr = "none"]]

\* A notification task: publish on the topic, then continue at next.
Notify(c, node, next, K) ==
  /\ pc[c] = node
  /\ \/ /\ Goto(c, next)
        /\ Log(c, node, {"sns:publish"}, {}, {node}, "none", {})
        /\ UNCHANGED <<params, now, ctx, job>>
     \/ \E e \in SnsErrors : Raise(c, node, {"sns:publish"}, e, <<>>, K)

\* A putParameter task: write v under key, then continue at next.
PutParameter(c, node, key, v, next, R, K) ==
  /\ pc[c] = node
  /\ \/ /\ params' = [params EXCEPT ![key] = v]
        /\ Goto(c, next)
        /\ Log(c, node, {"ssm:putParameter"}, {node}, {}, "none", {})
        /\ UNCHANGED <<now, ctx, job>>
     \/ \E e \in SsmWriteErrors : Raise(c, node, {"ssm:putParameter"}, e, R, K)

\* ---------------------------------------------------------- conditions
isWorkflowPaused(x) == x.p["WorkflowAction"] = "PAUSE"
pitrIsEnabled(x) == x.pitr = "ENABLED"
fullExportStillRunning(x) == x.p["WorkflowInitiated"] = NULL_STRING
resetWithFullExportAgain(x) == x.reset
pitrGapWorkflowState(x) == x.p["WorkflowState"] = "PITR_GAP"
executeFullExport(x) == x.p["WorkflowInitiated"] \in {ABSENT, "false"}
lastIncrementalExportTimeIsValid(x) == x.p["LastIncrementalExportTime"] # NoTime
\* "Past the current time" is used as at the retry of executeIncrementalExport
\* ("the exportToTime being past the current time"): the end of the window is
\* still ahead of the clock.
nextIncrementalExportEndTimeIsPastCurrentTime(x) == x.exportToTime > x.checkTime
earliestRestoreDateTimeIsGreaterThanExportStartTime(x) == x.earliest > x.exportFromTime
incrementalExportCompleted(x) == x.status = "COMPLETED"
incrementalExportFailed(x) == x.status = "FAILED"
fullExportCompleted(x) == x.status = "COMPLETED"
fullExportFailed(x) == x.status = "FAILED"
incrementalExportStateIsFalse(x) == x.flag = "false"
workflowInitializedParameterOutputFalse(x) == x.flag = "false"

\* ------------------------------------------------- environment / scheduler
Idle(c) == pc[c] \in TerminalNodes \cup {"idle"}

\* The scheduler starts an execution; the previous one has ended.  The job a
\* previous execution started lives on in the export service.
StartCycle(c) ==
  /\ \A d \in Cycles : Idle(d)
  /\ pc' = [pc EXCEPT ![c] = "getParametersTask"]
  /\ ctx' = [ctx EXCEPT ![c] = NoContext]
  /\ retries' = [retries EXCEPT ![c] = NoRetries]
  /\ hist' = [hist EXCEPT ![c] = NoHistory]
  /\ UNCHANGED <<params, now, job, stack>>

\* One unit of time is one export window, and a task takes seconds: the clock
\* and the operator move between executions and while an execution sits in a
\* Wait state, not within a task.
WaitNodes == {"waitForIncrementalExport", "waitForFullExport"}

Quiet == \A c \in Cycles : Idle(c) \/ pc[c] \in WaitNodes

Tick ==
  /\ now < MaxTime
  /\ Quiet
  /\ now' = now + 1
  /\ UNCHANGED <<params, pc, ctx, retries, hist, job, stack>>

OperatorSetsWorkflowAction(a) ==
  /\ params["WorkflowAction"] # a
  /\ Quiet
  /\ params' = [params EXCEPT !["WorkflowAction"] = a]
  /\ UNCHANGED <<now, pc, ctx, retries, hist, job, stack>>

ExportJobEnds(c, s) ==
  /\ job[c].status = "IN_PROGRESS"
  /\ job' = [job EXCEPT ![c].status = s]
  /\ UNCHANGED <<params, now, pc, ctx, retries, hist, stack>>

\* ------------------------------------------------------------------------
\* The graph: one action per state of the state machine.
\* ------------------------------------------------------------------------

\* getParametersTask: read the five parameters (and with them the operator's
\* reset request) into the execution's state.
GetParametersTask(c) ==
  /\ pc[c] = "getParametersTask"
  /\ \/ /\ \E r \in BOOLEAN : ctx' = [ctx EXCEPT ![c].p = params, ![c].reset = r]
        /\ Goto(c, "cleanParametersPassState")
        /\ Log(c, "getParametersTask", {"ssm:getParameters"}, {}, {}, "none", {})
        /\ UNCHANGED <<params, now, job>>
     \/ \E e \in SsmErrors :
          Raise(c, "getParametersTask", {"ssm:getParameters"}, e,
                <<ssmSdkRetryHandler>>, <<catchAllToNotifyOnTaskFailed>>)

CleanParametersPassState(c) ==
  /\ pc[c] = "cleanParametersPassState"
  /\ Move(c, "checkWorkflowAction")
  /\ UNCHANGED <<params, now, ctx, job>>

\* The pause looked at only after the table and PITR have been described.
CheckWorkflowAction_PauseIgnored(c) ==
  /\ pc[c] = "checkWorkflowAction"
  /\ Move(c, "ensureTableExistsTask")
  /\ UNCHANGED <<params, now, ctx, job>>

CheckWorkflowAction(c) ==
  /\ pc[c] = "checkWorkflowAction"
  /\ IF isWorkflowPaused(ctx[c])
     THEN SetRoute(c, "workflowPaused", "Paused")
     ELSE Move(c, "ensureTableExistsTask")
  /\ UNCHANGED <<params, now, ctx, job>>

EnsureTableExistsTask(c) ==
  /\ pc[c] = "ensureTableExistsTask"
  /\ \/ /\ Goto(c, "describeContinuousBackupsAwsServiceTask")
        /\ Log(c, "ensureTableExistsTask", {"dynamodb:describeTable"}, {}, {}, "none", {})
        /\ UNCHANGED <<params, now, ctx, job>>
     \/ \E e \in DynamoDbErrors :
          Raise(c, "ensureTableExistsTask", {"dynamodb:describeTable"}, e,
                <<dynamoDbSdkRetryHandler>>, <<catchAllToNotifyOnTaskFailed>>)

DescribeContinuousBackupsAwsServiceTask(c) ==
  /\ pc[c] = "describeContinuousBackupsAwsServiceTask"
  /\ \/ /\ \E s \in {"ENABLED", "DISABLED"}, t \in 0..now :
             ctx' = [ctx EXCEPT ![c].pitr = s,
                                ![c].earliest = IF s = "ENABLED" THEN t ELSE NoTime]
        /\ Goto(c, "pitrEnabledChoice")
        /\ Log(c, "describeContinuousBackupsAwsServiceTask",
               {"dynamodb:describeContinuousBackups"}, {}, {}, "none", {})
        /\ UNCHANGED <<params, now, job>>
     \/ \E e \in DynamoDbErrors :
          Raise(c, "describeContinuousBackupsAwsServiceTask",
                {"dynamodb:describeContinuousBackups"}, e,
                <<dynamoDbSdkRetryHandler>>, <<catchAllToNotifyOnTaskFailed>>)

PitrEnabledChoice(c) ==
  /\ pc[c] = "pitrEnabledChoice"
  /\ IF pitrIsEnabled(ctx[c])
     THEN Move(c, "initializeWorkflowState")
     ELSE SetRoute(c, "notifyOnPitrDisabled", "PitrDisabledFail")
  /\ UNCHANGED <<params, now, ctx, job>>

\* The PITR_GAP branch tried before the reset branch.
InitializeWorkflowState_GapBeforeReset(c) ==
  /\ pc[c] = "initializeWorkflowState"
  /\ IF fullExportStillRunning(ctx[c])
       THEN SetRoute(c, "notifyOnFullExportRunning", "FullExportStillRunning")
     ELSE IF pitrGapWorkflowState(ctx[c])
       THEN SetRoute(c, "notifyOnPitrGap", "PitrGapNotify")
     ELSE IF resetWithFullExportAgain(ctx[c])
       THEN SetRoute(c, "executeFullExport", "FullExport")
     ELSE IF executeFullExport(ctx[c])
       THEN SetRoute(c, "executeFullExport", "FullExport")
     ELSE SetRoute(c, "isLastIncrementalExportParameterValid", "IncrementalExport")
  /\ UNCHANGED <<params, now, ctx, job>>

\* The not-initialized branch tried before the PITR_GAP branch.
InitializeWorkflowState_InitiatedBeforeGap(c) ==
  /\ pc[c] = "initializeWorkflowState"
  /\ IF fullExportStillRunning(ctx[c])
       THEN SetRoute(c, "notifyOnFullExportRunning", "FullExportStillRunning")
     ELSE IF resetWithFullExportAgain(ctx[c])
       THEN SetRoute(c, "executeFullExport", "FullExport")
     ELSE IF executeFullExport(ctx[c])
       THEN SetRoute(c, "executeFullExport", "FullExport")
     ELSE IF pitrGapWorkflowState(ctx[c])
       THEN SetRoute(c, "notifyOnPitrGap", "PitrGapNotify")
     ELSE SetRoute(c, "isLastIncrementalExportParameterValid", "IncrementalExport")
  /\ UNCHANGED <<params, now, ctx, job>>

\* The not-initialized branch left out.
InitializeWorkflowState_NoInitiatedBranch(c) ==
  /\ pc[c] = "initializeWorkflowState"
  /\ IF fullExportStillRunning(ctx[c])
       THEN SetRoute(c, "notifyOnFullExportRunning", "FullExportStillRunning")
     ELSE IF resetWithFullExportAgain(ctx[c])
       THEN SetRoute(c, "executeFullExport", "FullExport")
     ELSE IF pitrGapWorkflowState(ctx[c])
       THEN SetRoute(c, "notifyOnPitrGap", "PitrGapNotify")
     ELSE SetRoute(c, "isLastIncrementalExportParameterValid", "IncrementalExport")
  /\ UNCHANGED <<params, now, ctx, job>>

\* initializeWorkflowState: the first .when whose condition holds is taken.
InitializeWorkflowState(c) ==
  /\ pc[c] = "initializeWorkflowState"
  /\ IF fullExportStillRunning(ctx[c])
       THEN SetRoute(c, "notifyOnFullExportRunning", "FullExportStillRunning")
     ELSE IF resetWithFullExportAgain(ctx[c])
       THEN SetRoute(c, "executeFullExport", "FullExport")
     ELSE IF pitrGapWorkflowState(ctx[c])
       THEN SetRoute(c, "notifyOnPitrGap", "PitrGapNotify")
     ELSE IF executeFullExport(ctx[c])
       THEN SetRoute(c, "executeFullExport", "FullExport")
     ELSE SetRoute(c, "isLastIncrementalExportParameterValid", "IncrementalExport")
  /\ UNCHANGED <<params, now, ctx, job>>

\* The notification followed by the polling loop of the full export.
NotifyOnFullExportRunning_ThenPoll(c) ==
  Notify(c, "notifyOnFullExportRunning", "waitForFullExport",
         <<catchAllToNotifyOnTaskFailed>>)

NotifyOnFullExportRunning(c) ==
  Notify(c, "notifyOnFullExportRunning", "fullExportStillRunning",
         <<catchAllToNotifyOnTaskFailed>>)

NotifyOnPitrGap(c) ==
  Notify(c, "notifyOnPitrGap", "pitrGapFound", <<catchAllToNotifyOnTaskFailed>>)

NotifyOnPitrDisabled(c) ==
  Notify(c, "notifyOnPitrDisabled", "pitrDisabledFail", <<catchAllToNotifyOnTaskFailed>>)

\* notifyOnTaskFailed has no catcher of its own.
NotifyOnTaskFailed(c) ==
  Notify(c, "notifyOnTaskFailed", "taskFailedNode", <<>>)

\* The two watermarks taken the wrong way round.
IsLastIncrementalExportParameterValid_Swapped(c) ==
  /\ pc[c] = "isLastIncrementalExportParameterValid"
  /\ IF lastIncrementalExportTimeIsValid(ctx[c])
     THEN Move(c, "useFullExportTimeParameterValue")
     ELSE Move(c, "useLastIncrementalExportTimeParameterValue")
  /\ UNCHANGED <<params, now, ctx, job>>

IsLastIncrementalExportParameterValid(c) ==
  /\ pc[c] = "isLastIncrementalExportParameterValid"
  /\ IF lastIncrementalExportTimeIsValid(ctx[c])
     THEN Move(c, "useLastIncrementalExportTimeParameterValue")
     ELSE Move(c, "useFullExportTimeParameterValue")
  /\ UNCHANGED <<params, now, ctx, job>>

UseLastIncrementalExportTimeParameterValue(c) ==
  /\ pc[c] = "useLastIncrementalExportTimeParameterValue"
  /\ ctx' = [ctx EXCEPT ![c].watermark = ctx[c].p["LastIncrementalExportTime"]]
  /\ Move(c, "getNextIncrementalExportTimeLambdaInvoke")
  /\ UNCHANGED <<params, now, job>>

UseFullExportTimeParameterValue(c) ==
  /\ pc[c] = "useFullExportTimeParameterValue"
  /\ ctx' = [ctx EXCEPT ![c].watermark = ctx[c].p["FullExportTime"]]
  /\ Move(c, "getNextIncrementalExportTimeLambdaInvoke")
  /\ UNCHANGED <<params, now, job>>

\* ------------------------------------------------- incremental export path
\* The Time Manipulator: the next window starts at the watermark and is one
\* export window long.
TimeManipulator(referenceTime, lastWatermark, windowSize) ==
  [exportFromTime |-> lastWatermark, exportToTime |-> lastWatermark + windowSize]

GetNextIncrementalExportTimeLambdaInvoke(c) ==
  /\ pc[c] = "getNextIncrementalExportTimeLambdaInvoke"
  /\ \/ /\ ctx[c].watermark # NoTime
        /\ LET w == TimeManipulator(now, ctx[c].watermark, WindowSize)
           IN ctx' = [ctx EXCEPT ![c].exportFromTime = w.exportFromTime,
                                 ![c].exportToTime = w.exportToTime]
        /\ Goto(c, "checkIncrementalExportNeeded")
        /\ Log(c, "getNextIncrementalExportTimeLambdaInvoke", {"lambda:invoke"}, {}, {}, "none", {})
        /\ UNCHANGED <<params, now, job>>
     \/ \E e \in LambdaErrors :
          Raise(c, "getNextIncrementalExportTimeLambdaInvoke", {"lambda:invoke"}, e,
                <<>>, <<catchAllToNotifyOnTaskFailed>>)

\* The PITR window checked before the need for an export.
CheckIncrementalExportNeeded_GapFirst(c) ==
  /\ pc[c] = "checkIncrementalExportNeeded"
  /\ LET x == [ctx[c] EXCEPT !.checkTime = now]
     IN /\ ctx' = [ctx EXCEPT ![c] = x]
        /\ IF earliestRestoreDateTimeIsGreaterThanExportStartTime(x)
           THEN Move(c, "setWorkflowStateParameterToPitrGap")
           ELSE IF nextIncrementalExportEndTimeIsPastCurrentTime(x)
           THEN Move(c, "incrementalExportNotNeeded")
           ELSE Move(c, "isEarliestRestoreDateTimeValidChoice")
  /\ UNCHANGED <<params, now, job>>

CheckIncrementalExportNeeded(c) ==
  /\ pc[c] = "checkIncrementalExportNeeded"
  /\ LET x == [ctx[c] EXCEPT !.checkTime = now]
     IN /\ ctx' = [ctx EXCEPT ![c] = x]
        /\ IF nextIncrementalExportEndTimeIsPastCurrentTime(x)
           THEN Move(c, "incrementalExportNotNeeded")
           ELSE Move(c, "isEarliestRestoreDateTimeValidChoice")
  /\ UNCHANGED <<params, now, job>>

\* The export started whatever the PITR window is.
IsEarliestRestoreDateTimeValidChoice_Ignored(c) ==
  /\ pc[c] = "isEarliestRestoreDateTimeValidChoice"
  /\ Move(c, "executeIncrementalExport")
  /\ UNCHANGED <<params, now, ctx, job>>

IsEarliestRestoreDateTimeValidChoice(c) ==
  /\ pc[c] = "isEarliestRestoreDateTimeValidChoice"
  /\ IF earliestRestoreDateTimeIsGreaterThanExportStartTime(ctx[c])
     THEN Move(c, "setWorkflowStateParameterToPitrGap")
     ELSE Move(c, "executeIncrementalExport")
  /\ UNCHANGED <<params, now, ctx, job>>

SetWorkflowStateParameterToPitrGap(c) ==
  PutParameter(c, "setWorkflowStateParameterToPitrGap", "WorkflowState", "PITR_GAP",
               "notifyOnIncrementalExportStartTimeOutsidePitrWindow",
               <<ssmSdkRetryHandler>>, <<catchAllToNotifyOnTaskFailed>>)

\* No addCatch on this notification.
NotifyOnIncrementalExportStartTimeOutsidePitrWindow(c) ==
  Notify(c, "notifyOnIncrementalExportStartTimeOutsidePitrWindow",
         "incrementalExportStartTimeOutsidePitrWindowFail", <<>>)

executeIncrementalExportRetry == <<invalidExportTimeRetry, dynamoDbSdkRetryHandler>>

executeIncrementalExportCatch ==
  <<catchAllToNotifyOnTaskFailed,
    CatchTo({"DynamoDb.InvalidExportTimeException"}, "setWorkflowStateParameterToPitrGap")>>

ExecuteIncrementalExport(c) ==
  /\ pc[c] = "executeIncrementalExport"
  /\ \/ /\ job' = [job EXCEPT ![c] = [kind |-> "incremental", status |-> "IN_PROGRESS"]]
        /\ Goto(c, "setLastIncrementalExportTimeParameter")
        /\ Log(c, "executeIncrementalExport", {"dynamodb:exportTableToPointInTime:incremental"},
               {}, {}, "none", {})
        /\ UNCHANGED <<params, now, ctx>>
     \/ \E e \in StartIncrementalErrors :
          Raise(c, "executeIncrementalExport", {"dynamodb:exportTableToPointInTime:incremental"},
                e, executeIncrementalExportRetry, executeIncrementalExportCatch)

SetLastIncrementalExportTimeParameter(c) ==
  PutParameter(c, "setLastIncrementalExportTimeParameter", "LastIncrementalExportTime",
               ctx[c].exportToTime, "describeIncrementalExport",
               <<ssmSdkRetryHandler>>, <<catchAllToNotifyOnTaskFailed>>)

\* describeExport: read the status of the job this execution started.
DescribeExport(c, node, next) ==
  /\ pc[c] = node
  /\ \/ /\ ctx' = [ctx EXCEPT ![c].status = job[c].status]
        /\ Goto(c, next)
        /\ Log(c, node, {"dynamodb:describeExport"}, {}, {}, "none", {})
        /\ UNCHANGED <<params, now, job>>
     \/ \E e \in DynamoDbErrors :
          Raise(c, node, {"dynamodb:describeExport"}, e,
                <<dynamoDbSdkRetryHandler>>, <<catchAllToNotifyOnTaskFailed>>)

DescribeIncrementalExport(c) ==
  DescribeExport(c, "describeIncrementalExport", "incrementalExportCompletedState")

IncrementalExportCompletedState(c) ==
  /\ pc[c] = "incrementalExportCompletedState"
  /\ IF incrementalExportCompleted(ctx[c]) THEN Move(c, "incrementalExportParameterTrue")
     ELSE IF incrementalExportFailed(ctx[c]) THEN Move(c, "incrementalExportParameterFalse")
     ELSE Move(c, "waitForIncrementalExport")
  /\ UNCHANGED <<params, now, ctx, job>>

WaitForIncrementalExport(c) ==
  /\ pc[c] = "waitForIncrementalExport"
  /\ Move(c, "describeIncrementalExport")
  /\ UNCHANGED <<params, now, ctx, job>>

\* A Pass state that records the outcome in the execution's state.
PassFlag(c, node, v, next) ==
  /\ pc[c] = node
  /\ ctx' = [ctx EXCEPT ![c].flag = v]
  /\ Move(c, next)
  /\ UNCHANGED <<params, now, job>>

IncrementalExportParameterTrue(c) ==
  PassFlag(c, "incrementalExportParameterTrue", "true", "notifyOnIncrementalExport")

IncrementalExportParameterFalse(c) ==
  PassFlag(c, "incrementalExportParameterFalse", "false", "notifyOnIncrementalExport")

NotifyOnIncrementalExport(c) ==
  Notify(c, "notifyOnIncrementalExport", "didIncrementalExportCompleteSuccessfully",
         <<catchAllToNotifyOnTaskFailed>>)

DidIncrementalExportCompleteSuccessfully(c) ==
  /\ pc[c] = "didIncrementalExportCompleteSuccessfully"
  /\ IF incrementalExportStateIsFalse(ctx[c])
     THEN Move(c, "incrementalExportFailed")
     ELSE Move(c, "incrementalExportSucceeded")
  /\ UNCHANGED <<params, now, ctx, job>>

\* -------------------------------------------------------- full export path
ExecuteFullExport(c) ==
  /\ pc[c] = "executeFullExport"
  /\ \/ /\ job' = [job EXCEPT ![c] = [kind |-> "full", status |-> "IN_PROGRESS"]]
        /\ ctx' = [ctx EXCEPT ![c].exportTime = now]
        /\ Goto(c, "setFullExportTimeParameter")
        /\ Log(c, "executeFullExport", {"dynamodb:exportTableToPointInTime:full"}, {}, {}, "none", {})
        /\ UNCHANGED <<params, now>>
     \/ \E e \in DynamoDbErrors :
          Raise(c, "executeFullExport", {"dynamodb:exportTableToPointInTime:full"}, e,
                <<dynamoDbSdkRetryHandler>>, <<catchAllToNotifyOnTaskFailed>>)

SetFullExportTimeParameter(c) ==
  PutParameter(c, "setFullExportTimeParameter", "FullExportTime", ctx[c].exportTime,
               "setWorkflowActionParameterToRun",
               <<ssmSdkRetryHandler>>, <<catchAllToNotifyOnTaskFailed>>)

\* The specific catcher sending the error where the catch-all sends it.
parameterNotFoundToSetEmptyWorkflowInitiated_ToNotifyOnTaskFailed ==
  CatchTo({"Ssm.ParameterNotFoundException"}, "notifyOnTaskFailed")

parameterNotFoundToSetEmptyWorkflowInitiated ==
  CatchTo({"Ssm.ParameterNotFoundException"}, "setEmptyWorkflowInitiatedParameter")

SetWorkflowActionParameterToRun(c) ==
  PutParameter(c, "setWorkflowActionParameterToRun", "WorkflowAction", "RUN",
               "setWorkflowStateParameterToNormal", <<ssmSdkRetryHandler>>,
               <<parameterNotFoundToSetEmptyWorkflowInitiated, catchAllToNotifyOnTaskFailed>>)

SetWorkflowStateParameterToNormal(c) ==
  PutParameter(c, "setWorkflowStateParameterToNormal", "WorkflowState", "NORMAL",
               "setEmptyWorkflowInitiatedParameter", <<ssmSdkRetryHandler>>,
               <<parameterNotFoundToSetEmptyWorkflowInitiated, catchAllToNotifyOnTaskFailed>>)

SetEmptyWorkflowInitiatedParameter(c) ==
  PutParameter(c, "setEmptyWorkflowInitiatedParameter", "WorkflowInitiated", NULL_STRING,
               "deleteLastIncrementalExportTimeParameter",
               <<ssmSdkRetryHandler>>, <<catchAllToNotifyOnTaskFailed>>)

deleteLastIncrementalExportTimeCatch ==
  <<CatchTo({"Ssm.ParameterNotFoundException"}, "describeFullExport"),
    catchAllToNotifyOnTaskFailed>>

\* deleteParameter: the parameter store answers ParameterNotFound exactly
\* when there is nothing to delete.
DeleteLastIncrementalExportTimeParameter(c) ==
  /\ pc[c] = "deleteLastIncrementalExportTimeParameter"
  /\ \/ /\ params["LastIncrementalExportTime"] # NoTime
        /\ params' = [params EXCEPT !["LastIncrementalExportTime"] = NoTime]
        /\ Goto(c, "describeFullExport")
        /\ Log(c, "deleteLastIncrementalExportTimeParameter", {"ssm:deleteParameter"},
               {"deleteLastIncrementalExportTimeParameter"}, {}, "none", {})
        /\ UNCHANGED <<now, ctx, job>>
     \/ \E e \in SsmWriteErrors :
          /\ (e = "Ssm.ParameterNotFoundException") => params["LastIncrementalExportTime"] = NoTime
          /\ Raise(c, "deleteLastIncrementalExportTimeParameter", {"ssm:deleteParameter"}, e,
                   <<ssmSdkRetryHandler>>, deleteLastIncrementalExportTimeCatch)

DescribeFullExport(c) ==
  DescribeExport(c, "describeFullExport", "fullExportCompletedState")

\* A failed job taken for a completed one.
FullExportCompletedState_FailedAsCompleted(c) ==
  /\ pc[c] = "fullExportCompletedState"
  /\ IF fullExportCompleted(ctx[c]) \/ fullExportFailed(ctx[c])
     THEN Move(c, "workflowInitializedParameterTrue")
     ELSE Move(c, "waitForFullExport")
  /\ UNCHANGED <<params, now, ctx, job>>

FullExportCompletedState(c) ==
  /\ pc[c] = "fullExportCompletedState"
  /\ IF fullExportCompleted(ctx[c]) THEN Move(c, "workflowInitializedParameterTrue")
     ELSE IF fullExportFailed(ctx[c]) THEN Move(c, "workflowInitializedParameterFalse")
     ELSE Move(c, "waitForFullExport")
  /\ UNCHANGED <<params, now, ctx, job>>

\* The wait leading back to the start of the export instead of the poll.
WaitForFullExport_StartsAgain(c) ==
  /\ pc[c] = "waitForFullExport"
  /\ Move(c, "executeFullExport")
  /\ UNCHANGED <<params, now, ctx, job>>

WaitForFullExport(c) ==
  /\ pc[c] = "waitForFullExport"
  /\ Move(c, "describeFullExport")
  /\ UNCHANGED <<params, now, ctx, job>>

WorkflowInitializedParameterTrue(c) ==
  PassFlag(c, "workflowInitializedParameterTrue", "true", "setWorkflowInitiatedParameter")

WorkflowInitializedParameterFalse(c) ==
  PassFlag(c, "workflowInitializedParameterFalse", "false", "setWorkflowInitiatedParameter")

SetWorkflowInitiatedParameter(c) ==
  PutParameter(c, "setWorkflowInitiatedParameter", "WorkflowInitiated", ctx[c].flag,
               "notifyOnFullExport", <<ssmSdkRetryHandler>>, <<catchAllToNotifyOnTaskFailed>>)

NotifyOnFullExport(c) ==
  Notify(c, "notifyOnFullExport", "didWorkflowInitiateSuccessfully",
         <<catchAllToNotifyOnTaskFailed>>)

DidWorkflowInitiateSuccessfully(c) ==
  /\ pc[c] = "didWorkflowInitiateSuccessfully"
  /\ IF workflowInitializedParameterOutputFalse(ctx[c])
     THEN Move(c, "fullExportFailed")
     ELSE Move(c, "fullExportSucceeded")
  /\ UNCHANGED <<params, now, ctx, job>>

\* ------------------------------------------------------------ specification
\* One step of a running execution.
Execution(c) ==
  \/ GetParametersTask(c)
  \/ CleanParametersPassState(c)
  \/ CheckWorkflowAction(c)
  \/ EnsureTableExistsTask(c)
  \/ DescribeContinuousBackupsAwsServiceTask(c)
  \/ PitrEnabledChoice(c)
  \/ InitializeWorkflowState(c)
  \/ NotifyOnFullExportRunning(c)
  \/ NotifyOnPitrGap(c)
  \/ NotifyOnPitrDisabled(c)
  \/ NotifyOnTaskFailed(c)
  \/ IsLastIncrementalExportParameterValid(c)
  \/ UseLastIncrementalExportTimeParameterValue(c)
  \/ UseFullExportTimeParameterValue(c)
  \/ GetNextIncrementalExportTimeLambdaInvoke(c)
  \/ CheckIncrementalExportNeeded(c)
  \/ IsEarliestRestoreDateTimeValidChoice(c)
  \/ SetWorkflowStateParameterToPitrGap(c)
  \/ NotifyOnIncrementalExportStartTimeOutsidePitrWindow(c)
  \/ ExecuteIncrementalExport(c)
  \/ SetLastIncrementalExportTimeParameter(c)
  \/ DescribeIncrementalExport(c)
  \/ IncrementalExportCompletedState(c)
  \/ WaitForIncrementalExport(c)
  \/ IncrementalExportParameterTrue(c)
  \/ IncrementalExportParameterFalse(c)
  \/ NotifyOnIncrementalExport(c)
  \/ DidIncrementalExportCompleteSuccessfully(c)
  \/ ExecuteFullExport(c)
  \/ SetFullExportTimeParameter(c)
  \/ SetWorkflowActionParameterToRun(c)
  \/ SetWorkflowStateParameterToNormal(c)
  \/ SetEmptyWorkflowInitiatedParameter(c)
  \/ DeleteLastIncrementalExportTimeParameter(c)
  \/ DescribeFullExport(c)
  \/ FullExportCompletedState(c)
  \/ WaitForFullExport(c)
  \/ WorkflowInitializedParameterTrue(c)
  \/ WorkflowInitializedParameterFalse(c)
  \/ SetWorkflowInitiatedParameter(c)
  \/ NotifyOnFullExport(c)
  \/ DidWorkflowInitiateSuccessfully(c)
  \/ \E s \in {"COMPLETED", "FAILED"} : ExportJobEnds(c, s)

Step(c) ==
  \/ StartCycle(c)
  \/ Execution(c)

\* One execution at a time: the schedule's cadence.
Next ==
  \/ Step("first")
  \/ Tick
  \/ \E a \in {"RUN", "PAUSE"} : OperatorSetsWorkflowAction(a)

Spec == Init /\ [][Next]_vars

\* The engine runs an execution that has a step to take, and an export job
\* that was started ends.
FairSpec ==
  /\ Spec
  /\ WF_vars(Step("first"))
  /\ WF_vars(\E s \in {"COMPLETED", "FAILED"} : ExportJobEnds("first", s))

\* A workflow that has completed its full export at time 0, one export window
\* ago.
InitializedParameters ==
  [WorkflowAction |-> "RUN", WorkflowState |-> "NORMAL", WorkflowInitiated |-> "true",
   LastIncrementalExportTime |-> NoTime, FullExportTime |-> 0]

\* The schedule fires for an execution slot that has not run yet; for the
\* second one it does so while the first is running: nothing in the schedule
\* or in the state machine excludes it.
StartOverlappingCycle(c) ==
  /\ pc[c] = "idle"
  /\ c = "second" => ~Idle("first")
  /\ pc' = [pc EXCEPT ![c] = "getParametersTask"]
  /\ ctx' = [ctx EXCEPT ![c] = NoContext]
  /\ retries' = [retries EXCEPT ![c] = NoRetries]
  /\ hist' = [hist EXCEPT ![c] = NoHistory]
  /\ UNCHANGED <<params, now, job, stack>>

\* Two executions on a workflow that is either freshly deployed or has
\* completed its full export.
OverlapInit ==
  /\ \/ params = NoParameters /\ now = 0
     \/ params = InitializedParameters /\ now = WindowSize
  /\ pc = [c \in Cycles |-> "idle"]
  /\ ctx = [c \in Cycles |-> NoContext]
  /\ retries = [c \in Cycles |-> NoRetries]
  /\ hist = [c \in Cycles |-> NoHistory]
  /\ job = [c \in Cycles |-> NoJob]
  /\ stack = DeployedStack

\* No task of the execution fails; the delete of a parameter that does not
\* exist is answered "parameter not found".
NoTaskFailure(c) ==
  \/ hist'[c].lastErr = "none"
  \/ /\ pc[c] = "deleteLastIncrementalExportTimeParameter"
     /\ hist'[c].lastErr = "Ssm.ParameterNotFoundException"

\* Two executions that no task failure disturbs.
OverlapNext ==
  \/ \E c \in Cycles : StartOverlappingCycle(c)
  \/ \E c \in Cycles : Execution(c) /\ NoTaskFailure(c)

OverlapSpec == OverlapInit /\ [][OverlapNext]_vars

\* Provisioning: the app's process constructs the stack for one table.
ProvisionInit ==
  /\ params = NoParameters
  /\ now = 0
  /\ pc = [c \in Cycles |-> "idle"]
  /\ ctx = [c \in Cycles |-> NoContext]
  /\ retries = [c \in Cycles |-> NoRetries]
  /\ hist = [c \in Cycles |-> NoHistory]
  /\ job = [c \in Cycles |-> NoJob]
  /\ stack = NoStack

ProvisionNext ==
  \/ \E w \in 0..MaxWindowMinutes : Constructor(w)
  \/ InitResumes
  \/ ProcessEnds

ProvisionSpec == ProvisionInit /\ [][ProvisionNext]_vars

\* ------------------------------------------------------------------------
\* Properties
\* ------------------------------------------------------------------------
StartFullExportCall == "dynamodb:exportTableToPointInTime:full"
StartIncrementalExportCall == "dynamodb:exportTableToPointInTime:incremental"
ExportCalls == {StartFullExportCall, StartIncrementalExportCall, "dynamodb:describeExport"}
FailureNodes == {"notifyOnTaskFailed", "taskFailedNode", "executionAborted"}

FiveRoutes == {"Paused", "FullExport", "IncrementalExport", "PitrGapNotify", "PitrDisabledFail"}

\* The route an execution that ended without a task failure has taken.
RouteOfTerminal(n) ==
  CASE n = "workflowPaused" -> "Paused"
    [] n = "pitrDisabledFail" -> "PitrDisabledFail"
    [] n = "pitrGapFound" -> "PitrGapNotify"
    [] n = "fullExportStillRunning" -> "FullExportStillRunning"
    [] n \in {"fullExportFailed", "fullExportSucceeded"} -> "FullExport"
    [] OTHER -> "IncrementalExport"

InitiatedIsFalse(x) == x.p["WorkflowInitiated"] \in {ABSENT, "false"}
FullExportInFlight(x) == x.p["WorkflowInitiated"] = NULL_STRING
InPitrGap(x) == x.p["WorkflowState"] = "PITR_GAP"
Paused(x) == x.p["WorkflowAction"] = "PAUSE"

\* The branching with its sixth route.  The reset condition is taken as an
\* input of its own, whatever WorkflowState is.
SixWayRoute(x) ==
  IF Paused(x) THEN "Paused"
  ELSE IF x.pitr # "ENABLED" THEN "PitrDisabledFail"
  ELSE IF FullExportInFlight(x) THEN "FullExportStillRunning"
  ELSE IF x.reset THEN "FullExport"
  ELSE IF InPitrGap(x) THEN "PitrGapNotify"
  ELSE IF InitiatedIsFalse(x) THEN "FullExport"
  ELSE "IncrementalExport"

EndedWithoutFailure(c) == pc[c] \in TerminalNodes \ FailureNodes

\* C1 (as stated): an execution in which no task raises an error ends on one
\* of the five routes Paused, Full-Export, Incremental-Export, PITR-Gap-Notify,
\* PITR-Disabled-Fail, and on no other.
C1_FiveRoutesOnly ==
  \A c \in Cycles :
    (EndedWithoutFailure(c) /\ ~hist[c].raised) => RouteOfTerminal(pc[c]) \in FiveRoutes

\* C1 (amended): an execution takes exactly one of six routes, the five named
\* ones and Full-Export-Still-Running, and the route is the one selected by
\* WorkflowAction, PITR-enabled, WorkflowState, WorkflowInitiated (with its
\* cleared value meaning a full export in flight) and the reset condition.
C1_SixRoutes ==
  \A c \in Cycles :
    /\ hist[c].route # "none" => hist[c].route = SixWayRoute(ctx[c])
    /\ EndedWithoutFailure(c) => hist[c].route = RouteOfTerminal(pc[c])

C1_Witness ==
  \E c \in Cycles :
    /\ pc[c] = "fullExportStillRunning"
    /\ ~hist[c].raised
    /\ ctx[c].reset
    /\ InPitrGap(ctx[c])

\* C2: not paused, PITR enabled, no full export in flight, WorkflowState
\* PITR_GAP: with the reset condition the execution starts the full export
\* whatever WorkflowInitiated is; without it the execution goes to the "PITR
\* gap found" notification and issues no export call and no parameter write.
C2_PitrGapBranches ==
  \A c \in Cycles :
    LET x == ctx[c]
    IN (/\ hist[c].route # "none"
        /\ ~Paused(x)
        /\ x.pitr = "ENABLED"
        /\ ~FullExportInFlight(x)
        /\ InPitrGap(x)) =>
          IF x.reset
          THEN /\ hist[c].route = "FullExport"
               /\ pc[c] = "executeFullExport" \/ StartFullExportCall \in hist[c].calls
               /\ StartIncrementalExportCall \notin hist[c].calls
          ELSE /\ hist[c].route = "PitrGapNotify"
               /\ pc[c] \in {"notifyOnPitrGap", "pitrGapFound"} \cup FailureNodes
               /\ hist[c].calls \cap ExportCalls = {}
               /\ hist[c].writes = {}
               /\ pc[c] = "pitrGapFound" => "notifyOnPitrGap" \in hist[c].notes
               /\ ~hist[c].raised => pc[c] \in {"notifyOnPitrGap", "pitrGapFound"}

C2_Witness ==
  \E c \in Cycles :
    /\ pc[c] = "pitrGapFound"
    /\ ctx[c].p["WorkflowInitiated"] = "false"
    /\ ~ctx[c].reset

\* C3 (as stated): every execution that starts with WorkflowInitiated=false
\* routes through the full export.
C3_AlwaysFullExport ==
  \A c \in Cycles :
    (EndedWithoutFailure(c) /\ ctx[c].p["WorkflowInitiated"] = "false") =>
       RouteOfTerminal(pc[c]) = "FullExport"

\* C3 (amended): an execution that starts with WorkflowInitiated=false never
\* issues an incremental export call, and it routes through the full export
\* exactly when WorkflowAction is not PAUSE, PITR is enabled and WorkflowState
\* is not PITR_GAP or the reset condition holds.
C3_NeverIncremental ==
  \A c \in Cycles :
    LET x == ctx[c]
    IN ("ssm:getParameters" \in hist[c].calls /\ pc[c] # "getParametersTask" /\ InitiatedIsFalse(x)) =>
         /\ StartIncrementalExportCall \notin hist[c].calls
         /\ hist[c].route # "IncrementalExport"
         /\ hist[c].route # "none" =>
              (hist[c].route = "FullExport"
                 <=> (~Paused(x) /\ x.pitr = "ENABLED" /\ (~InPitrGap(x) \/ x.reset)))
         /\ EndedWithoutFailure(c) /\ hist[c].route = "FullExport" =>
              StartFullExportCall \in hist[c].calls

C3_Witness ==
  \E c \in Cycles :
    /\ pc[c] = "fullExportSucceeded"
    /\ ctx[c].p["WorkflowInitiated"] = "false"

\* A task of execution c raises e at node in this step.
RaisedAt(c, node, e) ==
  /\ pc[c] = node
  /\ hist'[c].lastErr = e
  /\ pc'[c] # pc[c] \/ retries'[c] # retries[c]

\* A task of execution c succeeds at node in this step.
SucceededAt(c, node) ==
  /\ pc[c] = node
  /\ pc'[c] # node
  /\ hist'[c].lastErr = "none"

\* C4: the "invalid export time" error of the start-incremental-export task is
\* retried at most 2 times, one minute apart; raised once more it sends the
\* execution to the step that sets WorkflowState=PITR_GAP, which is followed by
\* the "start time outside PITR window" notification and the failed end.
C4_InvalidExportTimeRetries ==
  [][\A c \in Cycles :
       /\ RaisedAt(c, "executeIncrementalExport", "DynamoDb.InvalidExportTimeException") =>
            IF retries[c].count[1] < 2
            THEN /\ pc'[c] = "executeIncrementalExport"
                 /\ retries'[c].count[1] = retries[c].count[1] + 1
                 /\ retries'[c].delay = 60
            ELSE pc'[c] = "setWorkflowStateParameterToPitrGap"
       /\ SucceededAt(c, "setWorkflowStateParameterToPitrGap") =>
            /\ params'["WorkflowState"] = "PITR_GAP"
            /\ pc'[c] = "notifyOnIncrementalExportStartTimeOutsidePitrWindow"
       /\ SucceededAt(c, "notifyOnIncrementalExportStartTimeOutsidePitrWindow") =>
            pc'[c] = "incrementalExportStartTimeOutsidePitrWindowFail"]_vars

C4_Witness ==
  \E c \in Cycles :
    /\ pc[c] = "incrementalExportStartTimeOutsidePitrWindowFail"
    /\ StartIncrementalExportCall \in hist[c].calls
    /\ params["WorkflowState"] = "PITR_GAP"
    /\ hist[c].notifyOnTaskFailedRuns = 0

\* C5: whenever a task other than Notify-And-Fail raises an error that no
\* retry and no more specific catch takes, Notify-And-Fail runs exactly once
\* and the execution ends in the task-failed state.
C5_CatchAllEverywhere ==
  \A c \in Cycles :
    (/\ pc[c] \in TerminalNodes
     /\ hist[c].escalated # {}
     /\ "notifyOnTaskFailed" \notin hist[c].escalated) =>
       /\ pc[c] = "taskFailedNode"
       /\ hist[c].notifyOnTaskFailedRuns = 1

\* C6: an execution that ended through Notify-And-Fail has written no
\* watermark without the matching completion flag: FullExportTime with
\* WorkflowInitiated set from the export result, LastIncrementalExportTime with
\* the success flag of the incremental export.
C6_NoPartialWatermark ==
  \A c \in Cycles :
    pc[c] = "taskFailedNode" =>
      /\ "setFullExportTimeParameter" \in hist[c].writes =>
            "setWorkflowInitiatedParameter" \in hist[c].writes
      /\ "setLastIncrementalExportTimeParameter" \in hist[c].writes =>
            ctx[c].flag \in {"true", "false"}

\* C7: an execution whose incremental export job did not reach COMPLETED
\* leaves LastIncrementalExportTime at the value it had when the execution
\* read it.
C7_WatermarkOnlyOnCompleted ==
  \A c \in Cycles :
    (/\ pc[c] \in TerminalNodes
     /\ StartIncrementalExportCall \in hist[c].calls
     /\ ctx[c].status # "COMPLETED") =>
       params["LastIncrementalExportTime"] = ctx[c].p["LastIncrementalExportTime"]

FullExportStillRunningAtBranch(c) ==
  /\ hist[c].route # "none"
  /\ ~Paused(ctx[c])
  /\ ctx[c].pitr = "ENABLED"
  /\ FullExportInFlight(ctx[c])

\* C8 (as stated): with PITR enabled and a full export still running at branch
\* time, the execution polls the export job and ends only once the job is
\* COMPLETED or FAILED.
C8_PollsUntilTerminal ==
  \A c \in Cycles :
    (FullExportStillRunningAtBranch(c) /\ pc[c] \in TerminalNodes /\ ~hist[c].raised) =>
       /\ "dynamodb:describeExport" \in hist[c].calls
       /\ ctx[c].status \in {"COMPLETED", "FAILED"}

\* C8 (amended): with PITR enabled and a full export still running at branch
\* time, the execution publishes the "full export running" notification and
\* ends in the Full-Export-Still-Running state (or through Notify-And-Fail
\* when the publish fails); it never polls the export job, issues no export
\* call and writes no parameter.
C8_NotifiesAndEnds ==
  \A c \in Cycles :
    FullExportStillRunningAtBranch(c) =>
       /\ hist[c].route = "FullExportStillRunning"
       /\ pc[c] \in {"notifyOnFullExportRunning", "fullExportStillRunning"} \cup FailureNodes
       /\ hist[c].calls \cap ExportCalls = {}
       /\ hist[c].writes = {}
       /\ ctx[c].status = UNSET
       /\ pc[c] = "fullExportStillRunning" => "notifyOnFullExportRunning" \in hist[c].notes

C8_Witness ==
  \E c \in Cycles :
    /\ pc[c] = "fullExportStillRunning"
    /\ job[c] = [kind |-> "full", status |-> "IN_PROGRESS"]

PastPitrWindowChoice(c) ==
  /\ ctx[c].checkTime # NoTime
  /\ pc[c] \notin {"isEarliestRestoreDateTimeValidChoice", "incrementalExportNotNeeded"}

SelectionNodes ==
  {"isLastIncrementalExportParameterValid",
   "useLastIncrementalExportTimeParameterValue",
   "useFullExportTimeParameterValue"}

\* The watermark the execution has to hand to the Time Manipulator.
SelectedWatermark(x) ==
  IF x.p["LastIncrementalExportTime"] # NoTime
  THEN x.p["LastIncrementalExportTime"]
  ELSE x.p["FullExportTime"]

\* C11: on the incremental path the watermark handed to the Time Manipulator is
\* LastIncrementalExportTime when that parameter is valid and FullExportTime
\* otherwise; the selection is made once, before the Time Manipulator is
\* invoked, and the window is computed from the selected watermark.
C11_WatermarkSelection ==
  \A c \in Cycles :
    /\ hist[c].route = "IncrementalExport" =>
         IF pc[c] \in SelectionNodes
         THEN /\ ctx[c].watermark = NoTime
              /\ "lambda:invoke" \notin hist[c].calls
         ELSE ctx[c].watermark = SelectedWatermark(ctx[c])
    /\ "lambda:invoke" \in hist[c].calls =>
         /\ hist[c].route = "IncrementalExport"
         /\ ctx[c].watermark = SelectedWatermark(ctx[c])
    /\ ctx[c].exportFromTime # NoTime =>
         /\ ctx[c].exportFromTime = SelectedWatermark(ctx[c])
         /\ ctx[c].exportToTime = SelectedWatermark(ctx[c]) + WindowSize

C11_Witness ==
  \E c \in Cycles :
    /\ pc[c] = "checkIncrementalExportNeeded"
    /\ ctx[c].p["WorkflowInitiated"] = "true"
    /\ ctx[c].p["LastIncrementalExportTime"] = NoTime
    /\ ctx[c].exportFromTime = ctx[c].p["FullExportTime"]

\* C12: on the full export path a "parameter not found" error of the
\* WorkflowAction=RUN write or of the WorkflowState=NORMAL write continues at
\* the step that clears WorkflowInitiated, and one of the delete of
\* LastIncrementalExportTime continues at the polling of the export job; none
\* of the three goes to Notify-And-Fail or is counted as an unhandled error.
C12_ParameterNotFoundTolerated ==
  [][\A c \in Cycles :
       /\ RaisedAt(c, "setWorkflowActionParameterToRun", "Ssm.ParameterNotFoundException") =>
            /\ pc'[c] = "setEmptyWorkflowInitiatedParameter"
            /\ hist'[c].escalated = hist[c].escalated
       /\ RaisedAt(c, "setWorkflowStateParameterToNormal", "Ssm.ParameterNotFoundException") =>
            /\ pc'[c] = "setEmptyWorkflowInitiatedParameter"
            /\ hist'[c].escalated = hist[c].escalated
       /\ RaisedAt(c, "deleteLastIncrementalExportTimeParameter", "Ssm.ParameterNotFoundException") =>
            /\ pc'[c] = "describeFullExport"
            /\ hist'[c].escalated = hist[c].escalated]_vars

C12_Witness ==
  \E c \in Cycles :
    /\ pc[c] = "fullExportSucceeded"
    /\ hist[c].notifyOnTaskFailedRuns = 0
    /\ "setWorkflowActionParameterToRun" \notin hist[c].writes
    /\ "setWorkflowStateParameterToNormal" \notin hist[c].writes
    /\ "deleteLastIncrementalExportTimeParameter" \notin hist[c].writes
    /\ "setEmptyWorkflowInitiatedParameter" \in hist[c].writes

WindowAccepted(w) == 15 <= w /\ w <= 1440

\* C13: the construction of the per-table stack accepts a window size w
\* exactly when 15 <= w <= 1440; for a rejected w the initialisation ends with
\* an error, the app's process fails, and none of the stack's resources is
\* defined; for an accepted w all of them are.
C13_WindowSizeChecked ==
  /\ stack.init \in {"fulfilled", "rejected"} =>
       /\ stack.init = "fulfilled" <=> WindowAccepted(stack.window)
       /\ stack.init = "rejected" => stack.resources = {}
       /\ stack.init = "fulfilled" => stack.resources = StackResources
  /\ stack.init \notin {"fulfilled"} => stack.resources = {}
  /\ stack.process = "failed" <=> (stack.init = "rejected" /\ stack.process # "running")
  /\ stack.process = "synthesized" => WindowAccepted(stack.window)

C13_Witness ==
  /\ stack.window = 1441
  /\ stack.init = "rejected"
  /\ stack.process = "failed"
  /\ stack.resources = {}

\* C14: when WorkflowAction is PAUSE the execution ends in the Paused state
\* right after reading the parameters: it calls neither the export nor the
\* PITR service, writes no parameter and publishes no notification, whatever
\* WorkflowState and WorkflowInitiated are.
C14_PausedDoesNothing ==
  \A c \in Cycles :
    Paused(ctx[c]) =>
      /\ pc[c] \in {"cleanParametersPassState", "checkWorkflowAction", "workflowPaused"}
      /\ hist[c].calls = {"ssm:getParameters"}
      /\ hist[c].writes = {}
      /\ hist[c].notes = {}
      /\ hist[c].notifyOnTaskFailedRuns = 0
      /\ \A k \in ParameterNames \ {"WorkflowAction"} : params[k] = ctx[c].p[k]

C14_Witness ==
  \E c \in Cycles :
    /\ pc[c] = "workflowPaused"
    /\ ctx[c].p["WorkflowState"] = "PITR_GAP"
    /\ ctx[c].p["WorkflowInitiated"] = "true"

SdkClientExceptions == {"Ssm.SdkClientException", "DynamoDb.SdkClientException"}

\* The error classes some retry policy of the task at node lists.
RetryableAt(node) ==
  IF node = "executeIncrementalExport"
  THEN {"DynamoDb.SdkClientException", "DynamoDb.InvalidExportTimeException"}
  ELSE SdkClientExceptions

AllErrors == SsmWriteErrors \cup StartIncrementalErrors \cup SnsErrors \cup LambdaErrors

\* The retries of the SDK client exception the task at pc[c] has used.
SdkAttempts(c) ==
  IF pc[c] = "executeIncrementalExport" THEN retries[c].count[2] ELSE retries[c].count[1]

Retried(c) == pc'[c] = pc[c] /\ retries'[c] # retries[c]

\* C15: a task is retried only on an error class one of its retry policies
\* lists; any other error leaves the task at once, through its catch handler,
\* with no retry; an SDK client exception is retried while fewer than
\* SDK_EXCEPTION_RETRY_ATTEMPTS retries were made, and raised once more it goes
\* to Notify-And-Fail.
C15_OnlyListedErrorsRetried ==
  [][\A c \in Cycles :
       /\ Retried(c) => hist'[c].lastErr \in RetryableAt(pc[c])
       /\ \A e \in AllErrors \ RetryableAt(pc[c]) :
            RaisedAt(c, pc[c], e) =>
               /\ ~Retried(c)
               /\ pc'[c] \in {"notifyOnTaskFailed", "executionAborted",
                              "setEmptyWorkflowInitiatedParameter", "describeFullExport"}
       /\ \A e \in SdkClientExceptions :
            RaisedAt(c, pc[c], e) =>
               IF SdkAttempts(c) < SDK_EXCEPTION_RETRY_ATTEMPTS
               THEN /\ Retried(c)
                    /\ SdkAttempts(c)' = SdkAttempts(c) + 1
               ELSE pc'[c] = "notifyOnTaskFailed"]_vars

C15_Witness ==
  \E c \in Cycles :
    /\ pc[c] = "notifyOnTaskFailed"
    /\ hist[c].lastErr = "Ssm.SdkClientException"
    /\ hist[c].escalated = {"setWorkflowStateParameterToNormal"}

\* The step that follows node on the full export path when node succeeds.
FullExportSuccessor(node, status) ==
  CASE node = "executeFullExport" -> "setFullExportTimeParameter"
    [] node = "setFullExportTimeParameter" -> "setWorkflowActionParameterToRun"
    [] node = "setWorkflowActionParameterToRun" -> "setWorkflowStateParameterToNormal"
    [] node = "setWorkflowStateParameterToNormal" -> "setEmptyWorkflowInitiatedParameter"
    [] node = "setEmptyWorkflowInitiatedParameter" -> "deleteLastIncrementalExportTimeParameter"
    [] node = "deleteLastIncrementalExportTimeParameter" -> "describeFullExport"
    [] node = "describeFullExport" -> "fullExportCompletedState"
    [] node = "fullExportCompletedState" ->
         IF status = "COMPLETED" THEN "workflowInitializedParameterTrue"
         ELSE IF status = "FAILED" THEN "workflowInitializedParameterFalse"
         ELSE "waitForFullExport"
    [] node = "waitForFullExport" -> "describeFullExport"
    [] node = "workflowInitializedParameterTrue" -> "setWorkflowInitiatedParameter"
    [] node = "workflowInitializedParameterFalse" -> "setWorkflowInitiatedParameter"
    [] node = "setWorkflowInitiatedParameter" -> "notifyOnFullExport"
    [] node = "notifyOnFullExport" -> "didWorkflowInitiateSuccessfully"
    [] node = "didWorkflowInitiateSuccessfully" ->
         IF status = "COMPLETED" THEN "fullExportSucceeded" ELSE "fullExportFailed"

FullExportNodes ==
  {"executeFullExport", "setFullExportTimeParameter", "setWorkflowActionParameterToRun",
   "setWorkflowStateParameterToNormal", "setEmptyWorkflowInitiatedParameter",
   "deleteLastIncrementalExportTimeParameter", "describeFullExport",
   "fullExportCompletedState", "waitForFullExport", "workflowInitializedParameterTrue",
   "workflowInitializedParameterFalse", "setWorkflowInitiatedParameter",
   "notifyOnFullExport", "didWorkflowInitiateSuccessfully"}

\* C16: on the full export path each step that succeeds is followed by the
\* next of start-full-export, write FullExportTime, write WorkflowAction=RUN,
\* write WorkflowState=NORMAL, clear WorkflowInitiated, delete
\* LastIncrementalExportTime, poll; after polling WorkflowInitiated is written
\* true exactly when the job is COMPLETED and false exactly when it is FAILED,
\* the notification follows that write, and the execution ends succeeded only
\* for a COMPLETED job and full-export-failed for a FAILED one.
C16_FullExportOrder ==
  [][\A c \in Cycles :
       /\ \A n \in FullExportNodes :
            SucceededAt(c, n) => pc'[c] = FullExportSuccessor(n, ctx'[c].status)
       /\ SucceededAt(c, "setWorkflowInitiatedParameter") =>
            /\ ctx[c].status \in {"COMPLETED", "FAILED"}
            /\ params'["WorkflowInitiated"] = "true" <=> ctx[c].status = "COMPLETED"
            /\ params'["WorkflowInitiated"] = "false" <=> ctx[c].status = "FAILED"
            /\ "notifyOnFullExport" \notin hist[c].notes
       /\ pc'[c] = "fullExportSucceeded" =>
            /\ ctx'[c].status = "COMPLETED"
            /\ "setWorkflowInitiatedParameter" \in hist'[c].writes
            /\ "notifyOnFullExport" \in hist'[c].notes
       /\ pc'[c] = "fullExportFailed" =>
            /\ ctx'[c].status = "FAILED"
            /\ "setWorkflowInitiatedParameter" \in hist'[c].writes
            /\ "notifyOnFullExport" \in hist'[c].notes]_vars

C16_Witness ==
  \E c \in Cycles :
    /\ pc[c] = "fullExportFailed"
    /\ job[c] = [kind |-> "full", status |-> "FAILED"]
    /\ params["WorkflowInitiated"] = "false"
    /\ {"setFullExportTimeParameter", "setWorkflowActionParameterToRun",
        "setWorkflowStateParameterToNormal", "setEmptyWorkflowInitiatedParameter",
        "setWorkflowInitiatedParameter"} \subseteq hist[c].writes

\* The states of the graph, every transition but the two Wait -> describe ones
\* leading forward in this order.
NodeOrder ==
  <<"getParametersTask", "cleanParametersPassState", "checkWorkflowAction", "workflowPaused",
    "ensureTableExistsTask", "describeContinuousBackupsAwsServiceTask", "pitrEnabledChoice",
    "notifyOnPitrDisabled", "pitrDisabledFail", "initializeWorkflowState",
    "notifyOnFullExportRunning", "fullExportStillRunning", "notifyOnPitrGap", "pitrGapFound",
    "isLastIncrementalExportParameterValid", "useLastIncrementalExportTimeParameterValue",
    "useFullExportTimeParameterValue", "getNextIncrementalExportTimeLambdaInvoke",
    "checkIncrementalExportNeeded", "incrementalExportNotNeeded",
    "isEarliestRestoreDateTimeValidChoice", "executeIncrementalExport",
    "setWorkflowStateParameterToPitrGap",
    "notifyOnIncrementalExportStartTimeOutsidePitrWindow",
    "incrementalExportStartTimeOutsidePitrWindowFail",
    "setLastIncrementalExportTimeParameter", "describeIncrementalExport",
    "incrementalExportCompletedState", "waitForIncrementalExport",
    "incrementalExportParameterTrue", "incrementalExportParameterFalse",
    "notifyOnIncrementalExport", "didIncrementalExportCompleteSuccessfully",
    "incrementalExportFailed", "incrementalExportSucceeded",
    "executeFullExport", "setFullExportTimeParameter", "setWorkflowActionParameterToRun",
    "setWorkflowStateParameterToNormal", "setEmptyWorkflowInitiatedParameter",
    "deleteLastIncrementalExportTimeParameter", "describeFullExport",
    "fullExportCompletedState", "waitForFullExport", "workflowInitializedParameterTrue",
    "workflowInitializedParameterFalse", "setWorkflowInitiatedParameter",
    "notifyOnFullExport", "didWorkflowInitiateSuccessfully", "fullExportFailed",
    "fullExportSucceeded", "notifyOnTaskFailed", "taskFailedNode", "executionAborted">>

Rank(n) == CHOOSE i \in 1..Len(NodeOrder) : NodeOrder[i] = n

Running(c) == pc[c] \notin TerminalNodes \cup {"idle"}

IncrementalPollingLoop ==
  {"describeIncrementalExport", "incrementalExportCompletedState", "waitForIncrementalExport"}

FullPollingLoop == {"describeFullExport", "fullExportCompletedState", "waitForFullExport"}

\* The execution leaves the polling loop L, whose Choice state is choice.
LeavesLoop(c, L, choice) ==
  (pc[c] \in L /\ pc'[c] \notin L) =>
     \/ pc[c] = choice /\ ctx[c].status \in {"COMPLETED", "FAILED"}
     \/ pc'[c] = "notifyOnTaskFailed" /\ hist'[c].lastErr # "none"

\* C17: every execution eventually reaches a terminal state; the only
\* transitions of the graph that lead back are the Wait -> describe ones of the
\* two polling loops, and a polling loop is left only on status COMPLETED, on
\* status FAILED, or by a task error routed to Notify-And-Fail.
C17_EveryCycleEnds ==
  /\ \A c \in Cycles : Running(c) ~> pc[c] \in TerminalNodes
  /\ [][\A c \in Cycles :
          /\ (Running(c) /\ pc'[c] # pc[c]) =>
               \/ Rank(pc'[c]) > Rank(pc[c])
               \/ pc[c] = "waitForIncrementalExport" /\ pc'[c] = "describeIncrementalExport"
               \/ pc[c] = "waitForFullExport" /\ pc'[c] = "describeFullExport"
          /\ LeavesLoop(c, IncrementalPollingLoop, "incrementalExportCompletedState")
          /\ LeavesLoop(c, FullPollingLoop, "fullExportCompletedState")]_vars

C17_Witness ==
  \E c \in Cycles :
    /\ pc[c] = "fullExportSucceeded"
    /\ now > ctx[c].exportTime

\* C18: a failed execution never wedges the workflow.  With one execution at a
\* time, an execution reads WorkflowInitiated cleared only when an earlier one
\* cleared it on the full export path and failed before writing the export
\* result; with WorkflowAction=RUN, PITR enabled and no task failing, such an
\* execution reaches the full export or the incremental export path.  (It
\* writes nothing otherwise, so that what the next one does, every later one
\* does.)
C18_FailedCycleNeverWedges ==
  \A c \in Cycles :
    (/\ pc[c] \in TerminalNodes
     /\ ~hist[c].raised
     /\ ctx[c].p["WorkflowAction"] = "RUN"
     /\ ctx[c].pitr = "ENABLED"
     /\ FullExportInFlight(ctx[c])) =>
       hist[c].route \in {"FullExport", "IncrementalExport"}

\* Execution c has started a full export without having read WorkflowInitiated
\* true.
StartedFullExportUninitiated(c) ==
  /\ StartFullExportCall \in hist[c].calls
  /\ job[c].kind = "full"
  /\ ctx[c].p["WorkflowInitiated"] # "true"

\* Execution c has started an incremental export from watermark w.
StartedIncrementalExportFrom(c, w) ==
  /\ StartIncrementalExportCall \in hist[c].calls
  /\ job[c].kind = "incremental"
  /\ ctx[c].exportFromTime = w

C19_OneFullExportStart ==
  \A c, d \in Cycles :
    c # d => ~(StartedFullExportUninitiated(c) /\ StartedFullExportUninitiated(d))

C19_OneIncrementalExportStartPerWatermark ==
  \A c, d \in Cycles :
    c # d => \A w \in 0..MaxTime :
               ~(StartedIncrementalExportFrom(c, w) /\ StartedIncrementalExportFrom(d, w))

\* C19: two executions that overlap never both start an export for the same
\* baseline: at most one starts a full export while WorkflowInitiated is not
\* yet true, and no two start an incremental export from the same watermark.
C19_NoDuplicateStart ==
  /\ C19_OneFullExportStart
  /\ C19_OneIncrementalExportStartPerWatermark

====
